---------------------------- MODULE Spec2Model ----------------------------
(***************************************************************************)
(* Model of the backend of learnflow-ai:                                   *)
(*   services/chunking_service.py      ChunkingService                     *)
(*   services/summarization_service.py SummarizationService.process_all    *)
(*   services/document_processor.py    extract_all_text, process_documents *)
(*   services/file_processor.py        FileProcessor.process_file          *)
(*   utils/scraper.py                  Scraper.scrape_url                  *)
(*   app.py, agents/syllabus_agent.py  generate_study_pack and the key     *)
(*                                     handed over in GOOGLE_API_KEY       *)
(*                                                                         *)
(* A Python str is a sequence of one-character strings.  chunk_text is     *)
(* modelled as a state machine with one action per branch of its loops;    *)
(* estimate_tokens, split_by_sentences, _get_overlap, str.strip,           *)
(* str.split and str.find are operators computed the way Python computes   *)
(* them.  chunk_multiple_sources runs chunk_text once per source; the      *)
(* summarize_chunk tasks of asyncio.gather complete in any order; the      *)
(* requests of the server run in threads that interleave at statements.    *)
(***************************************************************************)
EXTENDS Integers, Sequences, FiniteSets, TLC

VARIABLES
    text,            \* argument text of chunk_text
    source,          \* argument source
    max_tokens,      \* argument max_tokens
    overlap_tokens,  \* argument overlap_tokens
    pc,              \* position in chunk_text
    paragraphs,      \* paragraphs the for loop of line 87 has still to visit
    sentences,       \* sentences the for loop of line 94 has still to visit
    current_chunk,   \* local current_chunk (the accumulator)
    chunks,          \* local chunks (the result list)
    chunk_index,     \* local chunk_index
    \* chunk_multiple_sources
    m_pc,            \* position in chunk_multiple_sources
    m_sources,       \* argument sources, a list of dicts
    m_max_tokens,    \* argument max_tokens of chunk_multiple_sources
    m_i,             \* 1-based position of the for loop of line 190
    all_chunks,      \* local all_chunks
    \* a call of one of the static helpers
    fn_pc,           \* position of the call
    fn_arg,          \* argument text
    fn_ret,          \* returned value
    \* SummarizationService.process_all
    s_pc,            \* position in process_all / summarize_chunks
    s_chunks,        \* the list chunks, the dicts mutated in place
    s_tasks,         \* the summarize_chunk coroutines handed to gather
    s_completed,     \* task numbers in the order the tasks completed
    s_summaries,     \* local summaries of summarize_chunks
    s_chunk_summaries, \* local chunk_summaries of process_all
    s_result,        \* the dict process_all returns
    \* DocumentProcessor.process_documents from step 2 on
    p_pc,            \* position in process_documents
    include_summaries, \* argument include_summaries
    p_result,        \* the dict process_documents returns
    \* Scraper.scrape_url
    sc_pc,           \* position in scrape_url
    sc_url,          \* argument url
    sc_max_retries,  \* self.max_retries
    sc_attempt,      \* loop variable attempt
    sc_log,          \* outcome of every GET issued so far, in order
    sc_ret,          \* returned value
    \* generate_study_pack with DocumentProcessor.extract_all_text
    a_pc,            \* position in generate_study_pack
    a_files,         \* request.files.getlist('files')
    a_text,          \* request.form.get('text', '')
    a_response,      \* status and error of the response
    x_pc,            \* position in extract_all_text
    x_files,         \* argument files
    x_manual,        \* argument manual_text
    x_i,             \* 1-based position of the for loop of line 60
    x_read,          \* positions of the files read so far
    extracted_sources, \* local extracted_sources
    x_ret,           \* what extract_all_text returned or raised
    \* concurrent requests and the process environment
    k_pc,            \* position of each request
    k_env,           \* os.environ["GOOGLE_API_KEY"]
    k_built          \* per request, the key each model client was built under

\* the variables of chunk_text
chunk_vars == <<text, source, max_tokens, overlap_tokens, pc, paragraphs,
                sentences, current_chunk, chunks, chunk_index>>

\* the variables of chunk_multiple_sources around its calls of chunk_text
multi_vars == <<m_pc, m_sources, m_max_tokens, m_i, all_chunks>>

fn_vars == <<fn_pc, fn_arg, fn_ret>>

sum_vars == <<s_pc, s_chunks, s_tasks, s_completed, s_summaries,
              s_chunk_summaries, s_result>>

pipe_vars == <<p_pc, include_summaries, p_result>>

scrape_vars == <<sc_pc, sc_url, sc_max_retries, sc_attempt, sc_log, sc_ret>>

extract_vars == <<a_pc, a_files, a_text, a_response, x_pc, x_files, x_manual,
                  x_i, x_read, extracted_sources, x_ret>>

key_vars == <<k_pc, k_env, k_built>>

\* the variables of the parts added last
other_vars == <<scrape_vars, extract_vars, key_vars>>

vars == <<chunk_vars, multi_vars, fn_vars, sum_vars, pipe_vars, other_vars>>

-----------------------------------------------------------------------------
(* Bounds of the inputs. *)

\* A text is the concatenation of at most MaxPieces pieces of Pieces.
MaxPieces == 5
\* max_tokens ranges over 0..MaxTokens.
MaxTokens == 2
\* overlap_tokens ranges over 0..MaxOverlap.
MaxOverlap == 1
\* the texts of the calls whose termination is examined have at most
\* MaxFairPieces pieces.
MaxFairPieces == 3
\* the texts handed to split_by_sentences alone have at most MaxSentenceChars
\* characters of SentenceChars.
MaxSentenceChars == 5
\* chunk_multiple_sources is given at most MaxSources sources.
MaxSources == 2
\* a Scraper is built with max_retries up to MaxRetries.
MaxRetries == 3
\* a request carries at most MaxFiles file entries, of which the first
\* MaxVariedFiles are of any kind and the others are good files.
MaxFiles == 6
MaxVariedFiles == 3
\* the server handles at most MaxRequests requests at a time.
MaxRequests == 2
\* a caller that breaks the precondition passes a max_tokens or an
\* overlap_tokens down to -MaxNegative.
MaxNegative == 1

-----------------------------------------------------------------------------
(* Characters and Python string primitives. *)

CHARS_PER_TOKEN == 4
\* document_processor.py line 17
MAX_TOTAL_DOCUMENTS == 5
\* document_processor.py line 83
MAX_MANUAL_CHARS == 10000
\* line 53: the default of overlap_tokens
DEFAULT_OVERLAP_TOKENS == 100

NL == "\n"

\* what str.strip() removes and what \s matches
Whitespace == {" ", NL, "\t", "\r"}

\* faulty variant of SentenceEnders: only the period ends a sentence
SentenceEnders_period_only == {"."}

\* the character class [.!?] of sentence_endings
SentenceEnders == {".", "!", "?"}

\* the pieces texts are built from: a letter, a word, the end of a sentence,
\* a space, a blank line
Pieces == { <<"a">>, <<"a", "a", "a">>, <<".", " ">>, <<" ">>, <<NL, NL>> }

Sources == {"doc.txt"}

RECURSIVE TextsUpTo(_)
TextsUpTo(n) ==
    IF n = 0 THEN {<<>>}
    ELSE LET shorter == TextsUpTo(n - 1)
         IN  shorter \cup {t \o p : t \in shorter, p \in Pieces}

Texts == TextsUpTo(MaxPieces)

Max(a, b) == IF a >= b THEN a ELSE b
Min(a, b) == IF a <= b THEN a ELSE b

\* s[start:] of Python, for any integer start
SliceFrom(s, start) ==
    LET n == Len(s)
        lo == IF start < 0 THEN Max(n + start, 0) ELSE Min(start, n)
    IN  SubSeq(s, lo + 1, n)

RECURSIVE LStrip(_)
LStrip(s) ==
    IF s # <<>> /\ Head(s) \in Whitespace THEN LStrip(Tail(s)) ELSE s

RECURSIVE RStrip(_)
RStrip(s) ==
    IF s # <<>> /\ s[Len(s)] \in Whitespace
    THEN RStrip(SubSeq(s, 1, Len(s) - 1))
    ELSE s

\* str.strip()
Strip(s) == RStrip(LStrip(s))

\* s.startswith(p) at offset i (1-based)
MatchesAt(s, p, i) ==
    /\ i + Len(p) - 1 <= Len(s)
    /\ \A k \in 1..Len(p) : s[i + k - 1] = p[k]

\* str.find(p): 0-based index of the first occurrence, -1 when there is none
Find(s, p) ==
    LET hits == {i \in 1..Len(s) : MatchesAt(s, p, i)}
    IN  IF hits = {} THEN -1
        ELSE (CHOOSE i \in hits : \A j \in hits : i <= j) - 1

\* p occurs in s
Contains(s, p) == \E i \in 1..(Len(s) + 1) : MatchesAt(s, p, i)

IsSuffix(p, s) == Len(p) <= Len(s) /\ SubSeq(s, Len(s) - Len(p) + 1, Len(s)) = p

\* text.split('\n\n'): acc is the piece being read
RECURSIVE SplitBlankLines(_, _)
SplitBlankLines(s, acc) ==
    IF s = <<>> THEN <<acc>>
    ELSE IF MatchesAt(s, <<NL, NL>>, 1)
         THEN <<acc>> \o SplitBlankLines(SubSeq(s, 3, Len(s)), <<>>)
         ELSE SplitBlankLines(Tail(s), Append(acc, Head(s)))

\* re.split(r'[.!?]\s+', text): one ender then the longest run of whitespace
RECURSIVE ReSplitSentences(_, _)
ReSplitSentences(s, acc) ==
    IF s = <<>> THEN <<acc>>
    ELSE IF Len(s) >= 2 /\ s[1] \in SentenceEnders /\ s[2] \in Whitespace
         THEN <<acc>> \o ReSplitSentences(LStrip(Tail(s)), <<>>)
         ELSE ReSplitSentences(Tail(s), Append(acc, Head(s)))

\* [x.strip() for x in parts if x.strip()]
RECURSIVE StripAndDropBlank(_)
StripAndDropBlank(parts) ==
    IF parts = <<>> THEN <<>>
    ELSE LET x == Strip(Head(parts))
         IN  (IF x # <<>> THEN <<x>> ELSE <<>>) \o StripAndDropBlank(Tail(parts))

-----------------------------------------------------------------------------
(* ChunkingService *)

\* faulty variant of estimate_tokens: rounds up
estimate_tokens_rounded_up(t) ==
    (Len(t) + CHARS_PER_TOKEN - 1) \div CHARS_PER_TOKEN

\* line 28; len(text) is never negative, so // is \div
estimate_tokens(t) == Len(t) \div CHARS_PER_TOKEN

split_by_sentences(t) == StripAndDropBlank(ReSplitSentences(t, <<>>))

split_paragraphs(t) == StripAndDropBlank(SplitBlankLines(t, <<>>))

\* faulty variant of get_overlap: the head of t instead of its tail
get_overlap_head(t, n) == SubSeq(t, 1, Min(Max(n, 0), Len(t)))

\* faulty variant of get_overlap: no overlap at all
get_overlap_none(t, n) == <<>>

get_overlap(t, overlap_chars) ==
    IF Len(t) <= overlap_chars THEN t
    ELSE LET overlap == SliceFrom(t, -overlap_chars)
             sentence_start == Find(overlap, <<".", " ">>)
         IN  IF sentence_start # -1
             THEN SliceFrom(overlap, sentence_start + 2)
             ELSE overlap

\* lines 99-104, 118-123, 137-142: the dict appended to chunks
make_chunk(src, idx, cur) ==
    [source |-> src, chunk_index |-> idx, text |-> Strip(cur),
     token_estimate |-> estimate_tokens(cur)]

\* line 77
overlap_chars == overlap_tokens * CHARS_PER_TOKEN

\* faulty variant of next_chunk_index: the counter is not advanced
next_chunk_index_stuck(idx) == idx

\* lines 105 and 124
next_chunk_index(idx) == idx + 1

\* faulty variant of append_paragraph: joined by a single newline
append_paragraph_one_newline(cur, para) ==
    IF cur # <<>> THEN cur \o <<NL>> \o para ELSE para

\* lines 130-133
append_paragraph(cur, para) ==
    IF cur # <<>> THEN cur \o <<NL, NL>> \o para ELSE para

-----------------------------------------------------------------------------
(* The parts of the program a specification does not run stay idle. *)

MultiIdle ==
    /\ m_pc = "idle"
    /\ m_sources = <<>>
    /\ m_max_tokens = 0
    /\ m_i = 0
    /\ all_chunks = <<>>

FnIdle ==
    /\ fn_pc = "idle"
    /\ fn_arg = <<>>
    /\ fn_ret = <<>>

SumIdle ==
    /\ s_pc = "idle"
    /\ s_chunks = <<>>
    /\ s_tasks = <<>>
    /\ s_completed = <<>>
    /\ s_summaries = <<>>
    /\ s_chunk_summaries = <<>>
    /\ s_result = <<>>

PipeIdle ==
    /\ p_pc = "idle"
    /\ include_summaries = FALSE
    /\ p_result = <<>>

ScrapeIdle ==
    /\ sc_pc = "idle"
    /\ sc_url = "none"
    /\ sc_max_retries = 0
    /\ sc_attempt = 0
    /\ sc_log = <<>>
    /\ sc_ret = [kind |-> "pending"]

ExtractIdle ==
    /\ a_pc = "idle"
    /\ a_files = <<>>
    /\ a_text = <<>>
    /\ a_response = [status |-> 0]
    /\ x_pc = "idle"
    /\ x_files = <<>>
    /\ x_manual = [given |-> FALSE]
    /\ x_i = 0
    /\ x_read = {}
    /\ extracted_sources = <<>>
    /\ x_ret = [kind |-> "pending"]

KeysIdle ==
    /\ k_pc = <<>>
    /\ k_env = "unset"
    /\ k_built = <<>>

OthersIdle == ScrapeIdle /\ ExtractIdle /\ KeysIdle

-----------------------------------------------------------------------------
(* chunk_text *)

\* the locals of chunk_text on entry (lines 79-85)
EnterChunkText ==
    /\ pc = "start"
    /\ paragraphs = <<>>
    /\ sentences = <<>>
    /\ current_chunk = <<>>
    /\ chunks = <<>>
    /\ chunk_index = 0

Init ==
    /\ text \in Texts
    /\ source \in Sources
    /\ max_tokens \in 0..MaxTokens
    /\ overlap_tokens \in 0..MaxOverlap
    /\ EnterChunkText
    /\ MultiIdle
    /\ FnIdle
    /\ SumIdle
    /\ PipeIdle
    /\ OthersIdle

\* lines 72-73: blank text returns []
ReturnEmpty ==
    /\ pc = "start"
    /\ Strip(text) = <<>>
    /\ pc' = "done"
    /\ UNCHANGED <<text, source, max_tokens, overlap_tokens, paragraphs,
                   sentences, current_chunk, chunks, chunk_index>>
    /\ UNCHANGED <<multi_vars, fn_vars, sum_vars, pipe_vars>>
    /\ UNCHANGED other_vars

\* lines 75-85
Begin ==
    /\ pc = "start"
    /\ Strip(text) # <<>>
    /\ paragraphs' = split_paragraphs(text)
    /\ pc' = "para"
    /\ UNCHANGED <<text, source, max_tokens, overlap_tokens, sentences,
                   current_chunk, chunks, chunk_index>>
    /\ UNCHANGED <<multi_vars, fn_vars, sum_vars, pipe_vars>>
    /\ UNCHANGED other_vars

\* lines 87-92: the paragraph exceeds the limit and is split by sentences
ParaOversized ==
    /\ pc = "para"
    /\ paragraphs # <<>>
    /\ estimate_tokens(Head(paragraphs)) > max_tokens
    /\ sentences' = split_by_sentences(Head(paragraphs))
    /\ paragraphs' = Tail(paragraphs)
    /\ pc' = "sent"
    /\ UNCHANGED <<text, source, max_tokens, overlap_tokens, current_chunk,
                   chunks, chunk_index>>
    /\ UNCHANGED <<multi_vars, fn_vars, sum_vars, pipe_vars>>
    /\ UNCHANGED other_vars

\* faulty variant of sentence_must_close: closes already at the limit
sentence_must_close_early(cur, sentence, max) ==
    estimate_tokens(cur \o <<" ">> \o sentence) >= max /\ cur # <<>>

\* line 97
sentence_must_close(cur, sentence, max) ==
    estimate_tokens(cur \o <<" ">> \o sentence) > max /\ cur # <<>>

\* lines 94-109: the sentence does not fit, the accumulator is saved
SentenceClose ==
    /\ pc = "sent"
    /\ sentences # <<>>
    /\ sentence_must_close(current_chunk, Head(sentences), max_tokens)
    /\ chunks' = Append(chunks, make_chunk(source, chunk_index, current_chunk))
    /\ chunk_index' = next_chunk_index(chunk_index)
    /\ current_chunk' = get_overlap(current_chunk, overlap_chars)
                           \o <<" ">> \o Head(sentences)
    /\ sentences' = Tail(sentences)
    /\ UNCHANGED <<text, source, max_tokens, overlap_tokens, pc, paragraphs>>
    /\ UNCHANGED <<multi_vars, fn_vars, sum_vars, pipe_vars>>
    /\ UNCHANGED other_vars

\* lines 94-97, 110-111
SentenceAppend ==
    /\ pc = "sent"
    /\ sentences # <<>>
    /\ ~sentence_must_close(current_chunk, Head(sentences), max_tokens)
    /\ current_chunk' = current_chunk \o <<" ">> \o Head(sentences)
    /\ sentences' = Tail(sentences)
    /\ UNCHANGED <<text, source, max_tokens, overlap_tokens, pc, paragraphs,
                   chunks, chunk_index>>
    /\ UNCHANGED <<multi_vars, fn_vars, sum_vars, pipe_vars>>
    /\ UNCHANGED other_vars

\* line 94: the sentence loop is over, back to the paragraph loop
SentencesDone ==
    /\ pc = "sent"
    /\ sentences = <<>>
    /\ pc' = "para"
    /\ UNCHANGED <<text, source, max_tokens, overlap_tokens, paragraphs,
                   sentences, current_chunk, chunks, chunk_index>>
    /\ UNCHANGED <<multi_vars, fn_vars, sum_vars, pipe_vars>>
    /\ UNCHANGED other_vars

\* faulty variant of paragraph_must_close: an empty accumulator is closed too
paragraph_must_close_empty(cur, para, max) ==
    estimate_tokens(cur \o <<NL, NL>> \o para) > max

\* line 116
paragraph_must_close(cur, para, max) ==
    estimate_tokens(cur \o <<NL, NL>> \o para) > max /\ cur # <<>>

\* lines 112-128: the paragraph fits alone but not with the accumulator
ParaClose ==
    /\ pc = "para"
    /\ paragraphs # <<>>
    /\ ~(estimate_tokens(Head(paragraphs)) > max_tokens)
    /\ paragraph_must_close(current_chunk, Head(paragraphs), max_tokens)
    /\ chunks' = Append(chunks, make_chunk(source, chunk_index, current_chunk))
    /\ chunk_index' = next_chunk_index(chunk_index)
    /\ current_chunk' = get_overlap(current_chunk, overlap_chars)
                           \o <<NL, NL>> \o Head(paragraphs)
    /\ paragraphs' = Tail(paragraphs)
    /\ UNCHANGED <<text, source, max_tokens, overlap_tokens, pc, sentences>>
    /\ UNCHANGED <<multi_vars, fn_vars, sum_vars, pipe_vars>>
    /\ UNCHANGED other_vars

\* faulty variant of ParaAppend: the paragraph stays in the queue
ParaAppend_requeued ==
    /\ pc = "para"
    /\ paragraphs # <<>>
    /\ ~(estimate_tokens(Head(paragraphs)) > max_tokens)
    /\ current_chunk' = Head(paragraphs)
    /\ UNCHANGED <<text, source, max_tokens, overlap_tokens, pc, sentences,
                   chunks, chunk_index, paragraphs>>
    /\ UNCHANGED <<multi_vars, fn_vars, sum_vars, pipe_vars>>
    /\ UNCHANGED other_vars

\* lines 112-116, 129-133
ParaAppend ==
    /\ pc = "para"
    /\ paragraphs # <<>>
    /\ ~(estimate_tokens(Head(paragraphs)) > max_tokens)
    /\ ~paragraph_must_close(current_chunk, Head(paragraphs), max_tokens)
    /\ current_chunk' = append_paragraph(current_chunk, Head(paragraphs))
    /\ paragraphs' = Tail(paragraphs)
    /\ UNCHANGED <<text, source, max_tokens, overlap_tokens, pc, sentences,
                   chunks, chunk_index>>
    /\ UNCHANGED <<multi_vars, fn_vars, sum_vars, pipe_vars>>
    /\ UNCHANGED other_vars

\* faulty variant of final_chunk_wanted: the last accumulator is dropped
final_chunk_dropped(cur) == FALSE

\* line 136
final_chunk_wanted(cur) == Strip(cur) # <<>>

\* lines 135-144: the final chunk and the return
Finish ==
    /\ pc = "para"
    /\ paragraphs = <<>>
    /\ chunks' = IF final_chunk_wanted(current_chunk)
                 THEN Append(chunks, make_chunk(source, chunk_index, current_chunk))
                 ELSE chunks
    /\ pc' = "done"
    /\ UNCHANGED <<text, source, max_tokens, overlap_tokens, paragraphs,
                   sentences, current_chunk, chunk_index>>
    /\ UNCHANGED <<multi_vars, fn_vars, sum_vars, pipe_vars>>
    /\ UNCHANGED other_vars

Next ==
    \/ ReturnEmpty
    \/ Begin
    \/ ParaOversized
    \/ SentenceClose
    \/ SentenceAppend
    \/ SentencesDone
    \/ ParaClose
    \/ ParaAppend
    \/ Finish

Spec == Init /\ [][Next]_vars

\* chunk_text is straight-line code inside its loops: a call that can take a
\* step takes it.
InitFair ==
    /\ text \in TextsUpTo(MaxFairPieces)
    /\ source \in Sources
    /\ max_tokens \in 0..MaxTokens
    /\ overlap_tokens \in 0..MaxOverlap
    /\ EnterChunkText
    /\ MultiIdle
    /\ FnIdle
    /\ SumIdle
    /\ PipeIdle
    /\ OthersIdle

FairSpec == InitFair /\ [][Next]_vars /\ WF_vars(Next)

\* a call whose max_tokens or overlap_tokens is negative
InitBadArgs ==
    /\ text \in Texts
    /\ source \in Sources
    /\ max_tokens \in (-MaxNegative)..MaxTokens
    /\ overlap_tokens \in (-MaxNegative)..MaxOverlap
    /\ max_tokens < 0 \/ overlap_tokens < 0
    /\ EnterChunkText
    /\ MultiIdle
    /\ FnIdle
    /\ SumIdle
    /\ PipeIdle
    /\ OthersIdle

SpecBadArgs == InitBadArgs /\ [][Next]_vars

-----------------------------------------------------------------------------
(* estimate_tokens and split_by_sentences called on their own *)

ChunkTextIdle ==
    /\ text = <<>>
    /\ source = "doc.txt"
    /\ max_tokens = 0
    /\ overlap_tokens = 0
    /\ pc = "idle"
    /\ paragraphs = <<>>
    /\ sentences = <<>>
    /\ current_chunk = <<>>
    /\ chunks = <<>>
    /\ chunk_index = 0

InitEstimate ==
    /\ fn_pc = "call_estimate_tokens"
    /\ fn_arg \in Texts
    /\ fn_ret = <<>>
    /\ ChunkTextIdle
    /\ MultiIdle
    /\ SumIdle
    /\ PipeIdle
    /\ OthersIdle

\* lines 16-28
CallEstimateTokens ==
    /\ fn_pc = "call_estimate_tokens"
    /\ fn_ret' = estimate_tokens(fn_arg)
    /\ fn_pc' = "estimate_tokens_returned"
    /\ UNCHANGED <<fn_arg, chunk_vars, multi_vars, sum_vars, pipe_vars>>
    /\ UNCHANGED other_vars

SpecEstimate == InitEstimate /\ [][CallEstimateTokens]_vars

\* the characters of the texts split_by_sentences is called on
SentenceChars == {"a", ".", "!", "?", " ", NL}

RECURSIVE StringsUpTo(_)
StringsUpTo(n) ==
    IF n = 0 THEN {<<>>}
    ELSE LET shorter == StringsUpTo(n - 1)
         IN  shorter \cup {Append(t, c) : t \in shorter, c \in SentenceChars}

InitSplit ==
    /\ fn_pc = "call_split_by_sentences"
    /\ fn_arg \in StringsUpTo(MaxSentenceChars)
    /\ fn_ret = <<>>
    /\ ChunkTextIdle
    /\ MultiIdle
    /\ SumIdle
    /\ PipeIdle
    /\ OthersIdle

\* lines 30-45
CallSplitBySentences ==
    /\ fn_pc = "call_split_by_sentences"
    /\ fn_ret' = split_by_sentences(fn_arg)
    /\ fn_pc' = "split_by_sentences_returned"
    /\ UNCHANGED <<fn_arg, chunk_vars, multi_vars, sum_vars, pipe_vars>>
    /\ UNCHANGED other_vars

SpecSplit == InitSplit /\ [][CallSplitBySentences]_vars

-----------------------------------------------------------------------------
(* chunk_multiple_sources *)

\* dict.get(key, default)
Get(d, key, default) == IF key \in DOMAIN d THEN d[key] ELSE default

\* the texts of the sources: empty, whitespace only, one short paragraph, one
\* paragraph of two sentences, two paragraphs
SourceTexts ==
    { <<>>,
      <<" ", NL>>,
      <<"a", "a", "a">>,
      <<"a", "a", "a", ".", " ", "a", "a", "a">>,
      <<"a", NL, NL, "a", "a", "a">> }

\* the dicts of the list sources: both keys, and dicts that lack a key
SourceDicts ==
    [source : {"a.txt", "b.txt"}, text : SourceTexts]
        \cup {[text |-> t] : t \in SourceTexts \ {<<>>, <<" ", NL>>}}
        \cup {[source |-> "a.txt"]}

RECURSIVE SourceLists(_)
SourceLists(n) ==
    IF n = 0 THEN {<<>>}
    ELSE LET shorter == SourceLists(n - 1)
         IN  shorter \cup {Append(l, d) : l \in shorter, d \in SourceDicts}

InitMulti ==
    /\ m_pc = "loop"
    /\ m_sources \in SourceLists(MaxSources)
    /\ m_max_tokens \in 0..MaxTokens
    /\ m_i = 1
    /\ all_chunks = <<>>
    /\ ChunkTextIdle
    /\ FnIdle
    /\ SumIdle
    /\ PipeIdle
    /\ OthersIdle

\* faulty variant of MultiSkip: a blank source ends the loop
MultiSkip_ends_loop ==
    /\ m_pc = "loop"
    /\ m_i <= Len(m_sources)
    /\ Strip(Get(m_sources[m_i], "text", <<>>)) = <<>>
    /\ m_i' = Len(m_sources) + 1
    /\ UNCHANGED <<m_pc, m_sources, m_max_tokens, all_chunks>>
    /\ UNCHANGED <<chunk_vars, fn_vars, sum_vars, pipe_vars>>
    /\ UNCHANGED other_vars

\* lines 190-194: the text of the source is blank, the loop goes on
MultiSkip ==
    /\ m_pc = "loop"
    /\ m_i <= Len(m_sources)
    /\ Strip(Get(m_sources[m_i], "text", <<>>)) = <<>>
    /\ m_i' = m_i + 1
    /\ UNCHANGED <<m_pc, m_sources, m_max_tokens, all_chunks>>
    /\ UNCHANGED <<chunk_vars, fn_vars, sum_vars, pipe_vars>>
    /\ UNCHANGED other_vars

\* faulty variant of MultiCall: the accumulator and the counter of the
\* previous call are still there
MultiCall_keeps_locals ==
    /\ m_pc = "loop"
    /\ m_i <= Len(m_sources)
    /\ Strip(Get(m_sources[m_i], "text", <<>>)) # <<>>
    /\ text' = Get(m_sources[m_i], "text", <<>>)
    /\ source' = Get(m_sources[m_i], "source", "unknown")
    /\ max_tokens' = m_max_tokens
    /\ overlap_tokens' = DEFAULT_OVERLAP_TOKENS
    /\ pc' = "start"
    /\ paragraphs' = <<>>
    /\ sentences' = <<>>
    /\ chunks' = <<>>
    /\ m_pc' = "call"
    /\ UNCHANGED <<current_chunk, chunk_index>>
    /\ UNCHANGED <<m_sources, m_max_tokens, m_i, all_chunks>>
    /\ UNCHANGED <<fn_vars, sum_vars, pipe_vars>>
    /\ UNCHANGED other_vars

\* lines 190-195: the call of chunk_text for a source with text; the callee
\* starts with its own locals (lines 79-85)
MultiCall ==
    /\ m_pc = "loop"
    /\ m_i <= Len(m_sources)
    /\ Strip(Get(m_sources[m_i], "text", <<>>)) # <<>>
    /\ text' = Get(m_sources[m_i], "text", <<>>)
    /\ source' = Get(m_sources[m_i], "source", "unknown")
    /\ max_tokens' = m_max_tokens
    /\ overlap_tokens' = DEFAULT_OVERLAP_TOKENS
    /\ pc' = "start"
    /\ paragraphs' = <<>>
    /\ sentences' = <<>>
    /\ current_chunk' = <<>>
    /\ chunks' = <<>>
    /\ chunk_index' = 0
    /\ m_pc' = "call"
    /\ UNCHANGED <<m_sources, m_max_tokens, m_i, all_chunks>>
    /\ UNCHANGED <<fn_vars, sum_vars, pipe_vars>>
    /\ UNCHANGED other_vars

\* faulty variant of extend: the new chunks are put in front
extend_in_front(all, new) == new \o all

\* line 196: list.extend
extend(all, new) == all \o new

\* lines 195-196: chunk_text has returned, its chunks are added
MultiExtend ==
    /\ m_pc = "call"
    /\ pc = "done"
    /\ all_chunks' = extend(all_chunks, chunks)
    /\ m_i' = m_i + 1
    /\ m_pc' = "loop"
    /\ UNCHANGED <<m_sources, m_max_tokens>>
    /\ UNCHANGED <<chunk_vars, fn_vars, sum_vars, pipe_vars>>
    /\ UNCHANGED other_vars

\* line 198
MultiReturn ==
    /\ m_pc = "loop"
    /\ m_i > Len(m_sources)
    /\ m_pc' = "done"
    /\ UNCHANGED <<m_sources, m_max_tokens, m_i, all_chunks>>
    /\ UNCHANGED <<chunk_vars, fn_vars, sum_vars, pipe_vars>>
    /\ UNCHANGED other_vars

\* a source with text never takes the return of lines 72-73
NextMulti ==
    \/ MultiSkip
    \/ MultiCall
    \/ Begin
    \/ ParaOversized
    \/ SentenceClose
    \/ SentenceAppend
    \/ SentencesDone
    \/ ParaClose
    \/ ParaAppend
    \/ Finish
    \/ MultiExtend
    \/ MultiReturn

SpecMulti == InitMulti /\ [][NextMulti]_vars

-----------------------------------------------------------------------------
(* process_documents from step 2 on, with SummarizationService.process_all *)

\* the sources extract_all_text hands over: dicts that have both keys
ExtractedDicts == [source : {"a.txt", "b.txt"}, text : SourceTexts]

RECURSIVE ExtractedLists(_)
ExtractedLists(n) ==
    IF n = 0 THEN {<<>>}
    ELSE LET shorter == ExtractedLists(n - 1)
         IN  shorter \cup {Append(l, d) : l \in shorter, d \in ExtractedDicts}

\* lines 131-135: chunk_multiple_sources is entered
InitPipeline ==
    /\ p_pc = "chunking"
    /\ include_summaries \in BOOLEAN
    /\ p_result = <<>>
    /\ m_pc = "loop"
    /\ m_sources \in ExtractedLists(MaxSources)
    /\ m_max_tokens \in 0..MaxTokens
    /\ m_i = 1
    /\ all_chunks = <<>>
    /\ ChunkTextIdle
    /\ FnIdle
    /\ SumIdle
    /\ OthersIdle

\* document_processor.py lines 138-140: process_all_sync is called with the
\* list chunk_multiple_sources returned
PipeSummarize ==
    /\ p_pc = "chunking"
    /\ m_pc = "done"
    /\ include_summaries /\ all_chunks # <<>>
    /\ s_chunks' = all_chunks
    /\ s_pc' = "create_tasks"
    /\ p_pc' = "summarizing"
    /\ UNCHANGED <<s_tasks, s_completed, s_summaries, s_chunk_summaries,
                   s_result, include_summaries, p_result>>
    /\ UNCHANGED <<chunk_vars, multi_vars, fn_vars>>
    /\ UNCHANGED other_vars

\* document_processor.py lines 138-164 when no summary is made
PipeNoSummaries ==
    /\ p_pc = "chunking"
    /\ m_pc = "done"
    /\ ~(include_summaries /\ all_chunks # <<>>)
    /\ p_result' = [chunks |-> all_chunks, chunk_summaries |-> <<>>,
                    final_summary |-> <<>>, total_chunks |-> Len(all_chunks)]
    /\ p_pc' = "done"
    /\ UNCHANGED include_summaries
    /\ UNCHANGED <<chunk_vars, multi_vars, fn_vars, sum_vars>>
    /\ UNCHANGED other_vars

\* what the agent answers to the request of one task: a value that tells
\* the request it answers
agent_reply(task, prompt) == <<"summary", task, prompt>>

\* lines 83 and 86, 63-69: one summarize_chunk task per chunk, each with
\* the prompt made of its chunk's text, awaiting the agent
CreateTasks ==
    /\ s_pc = "create_tasks"
    /\ s_tasks' = [i \in 1..Len(s_chunks) |->
                      [prompt |-> s_chunks[i].text, state |-> "awaiting",
                       result |-> <<>>]]
    /\ s_pc' = "gather"
    /\ UNCHANGED <<s_chunks, s_completed, s_summaries, s_chunk_summaries,
                   s_result>>
    /\ UNCHANGED <<chunk_vars, multi_vars, fn_vars, pipe_vars>>
    /\ UNCHANGED other_vars

\* lines 69-70: the agent answers one task, in any order
TaskComplete ==
    /\ s_pc = "gather"
    /\ \E i \in 1..Len(s_tasks) :
          /\ s_tasks[i].state = "awaiting"
          /\ s_tasks' = [s_tasks EXCEPT
                            ![i].state = "done",
                            ![i].result = agent_reply(i, s_tasks[i].prompt)]
          /\ s_completed' = Append(s_completed, i)
    /\ UNCHANGED <<s_pc, s_chunks, s_summaries, s_chunk_summaries, s_result>>
    /\ UNCHANGED <<chunk_vars, multi_vars, fn_vars, pipe_vars>>
    /\ UNCHANGED other_vars

\* line 69: the agent fails for one task; gather, process_all and
\* process_documents raise
TaskRaise ==
    /\ s_pc = "gather"
    /\ \E i \in 1..Len(s_tasks) :
          /\ s_tasks[i].state = "awaiting"
          /\ s_tasks' = [s_tasks EXCEPT ![i].state = "raised"]
    /\ s_pc' = "raised"
    /\ p_pc' = "raised"
    /\ UNCHANGED <<s_chunks, s_completed, s_summaries, s_chunk_summaries,
                   s_result, include_summaries, p_result>>
    /\ UNCHANGED <<chunk_vars, multi_vars, fn_vars>>
    /\ UNCHANGED other_vars

\* faulty variant of gather_results: in the order the tasks completed
gather_results_as_completed(tasks, completed) ==
    [k \in 1..Len(completed) |-> tasks[completed[k]].result]

\* line 86: asyncio.gather returns the results in the order of its arguments
gather_results(tasks, completed) ==
    [i \in 1..Len(tasks) |-> tasks[i].result]

\* line 86: every task is done
GatherReturn ==
    /\ s_pc = "gather"
    /\ \A i \in 1..Len(s_tasks) : s_tasks[i].state = "done"
    /\ s_summaries' = gather_results(s_tasks, s_completed)
    /\ s_pc' = "add_summaries"
    /\ UNCHANGED <<s_chunks, s_tasks, s_completed, s_chunk_summaries, s_result>>
    /\ UNCHANGED <<chunk_vars, multi_vars, fn_vars, pipe_vars>>
    /\ UNCHANGED other_vars

\* faulty variant of with_summary: the summary replaces the text
with_summary_as_text(chunk, summary) == [chunk EXCEPT !.text = summary]

\* line 90: chunk['summary'] = summary
with_summary(chunk, summary) ==
    [f \in DOMAIN chunk \cup {"summary"} |->
        IF f = "summary" THEN summary ELSE chunk[f]]

\* lines 89-92: the dicts of the list get their summary, in place
AddSummaries ==
    /\ s_pc = "add_summaries"
    /\ s_chunks' = [i \in 1..Len(s_chunks) |->
                       IF i <= Len(s_summaries)
                       THEN with_summary(s_chunks[i], s_summaries[i])
                       ELSE s_chunks[i]]
    /\ s_pc' = "extract"
    /\ UNCHANGED <<s_tasks, s_completed, s_summaries, s_chunk_summaries,
                   s_result>>
    /\ UNCHANGED <<chunk_vars, multi_vars, fn_vars, pipe_vars>>
    /\ UNCHANGED other_vars

\* lines 129, 132 and 104-112: the summaries are read back from the chunks
\* and the final summary is requested
ExtractSummaries ==
    /\ s_pc = "extract"
    /\ s_chunk_summaries' = [i \in 1..Len(s_chunks) |-> s_chunks[i].summary]
    /\ s_pc' = "await_final"
    /\ UNCHANGED <<s_chunks, s_tasks, s_completed, s_summaries, s_result>>
    /\ UNCHANGED <<chunk_vars, multi_vars, fn_vars, pipe_vars>>
    /\ UNCHANGED other_vars

\* lines 112-113, 132-138: the agent answers, process_all returns
FinalSummary ==
    /\ s_pc = "await_final"
    /\ s_result' = [chunks |-> s_chunks,
                    chunk_summaries |-> s_chunk_summaries,
                    final_summary |-> agent_reply(0, s_chunk_summaries)]
    /\ s_pc' = "returned"
    /\ UNCHANGED <<s_chunks, s_tasks, s_completed, s_summaries,
                   s_chunk_summaries>>
    /\ UNCHANGED <<chunk_vars, multi_vars, fn_vars, pipe_vars>>
    /\ UNCHANGED other_vars

\* line 112: the agent fails; process_all and process_documents raise
FinalRaise ==
    /\ s_pc = "await_final"
    /\ s_pc' = "raised"
    /\ p_pc' = "raised"
    /\ UNCHANGED <<s_chunks, s_tasks, s_completed, s_summaries,
                   s_chunk_summaries, s_result, include_summaries, p_result>>
    /\ UNCHANGED <<chunk_vars, multi_vars, fn_vars>>
    /\ UNCHANGED other_vars

\* document_processor.py lines 143-164 after process_all_sync returned
PipeResult ==
    /\ p_pc = "summarizing"
    /\ s_pc = "returned"
    /\ p_result' = [chunks |-> s_result.chunks,
                    chunk_summaries |-> s_result.chunk_summaries,
                    final_summary |-> s_result.final_summary,
                    total_chunks |-> Len(s_chunks)]
    /\ p_pc' = "done"
    /\ UNCHANGED include_summaries
    /\ UNCHANGED <<chunk_vars, multi_vars, fn_vars, sum_vars>>
    /\ UNCHANGED other_vars

NextPipeline ==
    \/ MultiSkip
    \/ MultiCall
    \/ Begin
    \/ ParaOversized
    \/ SentenceClose
    \/ SentenceAppend
    \/ SentencesDone
    \/ ParaClose
    \/ ParaAppend
    \/ Finish
    \/ MultiExtend
    \/ MultiReturn
    \/ PipeSummarize
    \/ PipeNoSummaries
    \/ CreateTasks
    \/ TaskComplete
    \/ TaskRaise
    \/ GatherReturn
    \/ AddSummaries
    \/ ExtractSummaries
    \/ FinalSummary
    \/ FinalRaise
    \/ PipeResult

SpecPipeline == InitPipeline /\ [][NextPipeline]_vars

-----------------------------------------------------------------------------
(* Scraper.scrape_url *)

\* str.split(): the maximal runs of non-whitespace characters
RECURSIVE SplitWords(_, _, _)
SplitWords(t, word, acc) ==
    IF t = <<>> THEN (IF word # <<>> THEN Append(acc, word) ELSE acc)
    ELSE IF Head(t) \in Whitespace
         THEN SplitWords(Tail(t), <<>>,
                         IF word # <<>> THEN Append(acc, word) ELSE acc)
         ELSE SplitWords(Tail(t), Append(word, Head(t)), acc)

\* ' '.join(words)
RECURSIVE JoinSpace(_)
JoinSpace(words) ==
    IF words = <<>> THEN <<>>
    ELSE IF Len(words) = 1 THEN words[1]
         ELSE words[1] \o <<" ">> \o JoinSpace(Tail(words))

\* what a page gives: the title element, if any, and the text of the soup
Pages ==
    [title : {<<>>, <<"T">>},
     has_title : BOOLEAN,
     text : {<<>>, <<" ", "a">>, <<"a", " ", NL, "a">>}]

\* requests.exceptions.RequestException: no connection, timeout, and the
\* HTTPError of raise_for_status
RequestErrors == {"ConnectionError", "Timeout", "HTTPError"}

\* lines 45-66: the record made of a response
page_record(url, page) ==
    LET cleaned == JoinSpace(SplitWords(page.text, <<>>, <<>>))
    IN  [kind |-> "page",
         url |-> url,
         title |-> IF page.has_title THEN page.title ELSE <<"No title">>,
         content |-> cleaned,
         word_count |-> Len(SplitWords(cleaned, <<>>, <<>>))]

InitScrape ==
    /\ sc_pc = "loop"
    /\ sc_url \in {"http://a", "http://b"}
    /\ sc_max_retries \in (-1)..MaxRetries
    /\ sc_attempt = 0
    /\ sc_log = <<>>
    /\ sc_ret = [kind |-> "pending"]
    /\ ExtractIdle
    /\ KeysIdle
    /\ ChunkTextIdle
    /\ MultiIdle
    /\ FnIdle
    /\ SumIdle
    /\ PipeIdle

scrape_frame == <<chunk_vars, multi_vars, fn_vars, sum_vars, pipe_vars,
                  extract_vars, key_vars>>

\* line 40: attempt in range(self.max_retries)
more_attempts(attempt, max) == attempt < max

\* faulty variant of is_last_attempt: the first failure gives up
is_last_attempt_always(attempt, max) == TRUE

\* line 69
is_last_attempt(attempt, max) == attempt = max - 1

\* lines 40-42: the GET is issued
ScrapeGet ==
    /\ sc_pc = "loop"
    /\ more_attempts(sc_attempt, sc_max_retries)
    /\ sc_pc' = "get"
    /\ UNCHANGED <<sc_url, sc_max_retries, sc_attempt, sc_log, sc_ret>>
    /\ UNCHANGED scrape_frame

\* lines 42-66: the response is good, the record is returned
GetSucceeds ==
    /\ sc_pc = "get"
    /\ \E page \in Pages : sc_ret' = page_record(sc_url, page)
    /\ sc_log' = Append(sc_log, "ok")
    /\ sc_pc' = "returned"
    /\ UNCHANGED <<sc_url, sc_max_retries, sc_attempt>>
    /\ UNCHANGED scrape_frame

\* lines 68-72: a request error before the last attempt, sleep and go on
GetFailsRetry ==
    /\ sc_pc = "get"
    /\ ~is_last_attempt(sc_attempt, sc_max_retries)
    /\ \E err \in RequestErrors : sc_log' = Append(sc_log, err)
    /\ sc_attempt' = sc_attempt + 1
    /\ sc_pc' = "loop"
    /\ UNCHANGED <<sc_url, sc_max_retries, sc_ret>>
    /\ UNCHANGED scrape_frame

\* lines 68-71: a request error at the last attempt, None is returned
GetFailsLast ==
    /\ sc_pc = "get"
    /\ is_last_attempt(sc_attempt, sc_max_retries)
    /\ \E err \in RequestErrors : sc_log' = Append(sc_log, err)
    /\ sc_ret' = [kind |-> "None"]
    /\ sc_pc' = "returned"
    /\ UNCHANGED <<sc_url, sc_max_retries, sc_attempt>>
    /\ UNCHANGED scrape_frame

\* lines 40 and 74: the range is used up
ScrapeExhausted ==
    /\ sc_pc = "loop"
    /\ ~more_attempts(sc_attempt, sc_max_retries)
    /\ sc_ret' = [kind |-> "None"]
    /\ sc_pc' = "returned"
    /\ UNCHANGED <<sc_url, sc_max_retries, sc_attempt, sc_log>>
    /\ UNCHANGED scrape_frame

NextScrape ==
    \/ ScrapeGet
    \/ GetSucceeds
    \/ GetFailsRetry
    \/ GetFailsLast
    \/ ScrapeExhausted

SpecScrape == InitScrape /\ [][NextScrape]_vars

-----------------------------------------------------------------------------
(* generate_study_pack and DocumentProcessor.extract_all_text *)

\* An uploaded file: its filename, whether its bytes can be opened, and the
\* texts of its pages or paragraphs.
GoodFile == [filename |-> "a.pdf", ok |-> TRUE, parts |-> <<<<"a", " ">>, <<" ">>>>]

FileEntries ==
    { [filename |-> "", ok |-> TRUE, parts |-> <<>>],
      GoodFile,
      [filename |-> "b.docx", ok |-> TRUE, parts |-> <<<<" ">>, <<" ", "b">>>>],
      [filename |-> "c.pdf", ok |-> TRUE, parts |-> <<<<" ">>>>],
      [filename |-> "d.docx", ok |-> FALSE, parts |-> <<>>],
      [filename |-> "e.txt", ok |-> TRUE, parts |-> <<<<"e">>>>] }

RECURSIVE VariedFiles(_)
VariedFiles(n) ==
    IF n = 0 THEN {<<>>}
    ELSE LET shorter == VariedFiles(n - 1)
         IN  shorter \cup {Append(l, f) : l \in shorter, f \in FileEntries}

RECURSIVE GoodFiles(_)
GoodFiles(n) == IF n = 0 THEN <<>> ELSE Append(GoodFiles(n - 1), GoodFile)

FileLists ==
    VariedFiles(MaxVariedFiles)
        \cup {l \o GoodFiles(k) : l \in {v \in VariedFiles(MaxVariedFiles) :
                                              Len(v) = MaxVariedFiles},
                                  k \in 1..(MaxFiles - MaxVariedFiles)}

\* A manual text: the characters of body followed by pad times "a".
ManualTexts ==
    [body : {<<>>, <<" ">>, <<" ", "a", " ">>}, pad : {0, MAX_MANUAL_CHARS}]

ManualLen(t) == Len(t.body) + t.pad

\* str.strip() of a manual text
ManualStrip(t) ==
    IF t.pad > 0 THEN [body |-> LStrip(t.body), pad |-> t.pad]
    ELSE [body |-> Strip(t.body), pad |-> 0]

\* filename.lower().split('.')[-1] (file_processor.py line 197)
Extension(filename) ==
    CASE filename \in {"a.pdf", "c.pdf"} -> "pdf"
      [] filename \in {"b.docx", "d.docx"} -> "docx"
      [] filename = "e.txt" -> "txt"
      [] OTHER -> filename

RECURSIVE JoinParts(_)
JoinParts(ps) ==
    IF ps = <<>> THEN <<>>
    ELSE IF Len(ps) = 1 THEN ps[1]
         ELSE ps[1] \o <<NL, NL>> \o JoinParts(Tail(ps))

\* file_processor.py lines 45-49 and 90-93: the parts with text, stripped
\* for a docx
KeptParts(file) ==
    LET with_text == SelectSeq(file.parts, LAMBDA part : Strip(part) # <<>>)
    IN  IF Extension(file.filename) = "docx"
        THEN [i \in 1..Len(with_text) |-> Strip(with_text[i])]
        ELSE with_text

\* file_processor.py lines 197-216, 36-69, 86-116: process_file returns
process_file_ok(file) ==
    /\ Extension(file.filename) \in {"pdf", "docx"}
    /\ file.ok
    /\ KeptParts(file) # <<>>

\* file_processor.py lines 58-66 and 105-113
process_file(file) ==
    [source |-> file.filename, type |-> Extension(file.filename),
     text |-> JoinParts(KeptParts(file)), pad |-> 0]

\* document_processor.py line 51
total_docs(files, manual) ==
    (IF files.given /\ files.list # <<>> THEN Len(files.list) ELSE 0)
        + (IF manual.given /\ ManualLen(manual.text) > 0 THEN 1 ELSE 0)

NoneArg == [given |-> FALSE]

\* a request that has a key and selected sections, or a direct call of
\* extract_all_text
InitExtract ==
    /\ \/ /\ a_pc = "request"
          /\ a_files \in FileLists
          /\ a_text \in ManualTexts
          /\ x_pc = "idle"
          /\ x_files = <<>>
          /\ x_manual = NoneArg
       \/ /\ a_pc = "idle"
          /\ a_files = <<>>
          /\ a_text = <<>>
          /\ x_pc = "validate"
          /\ x_files \in {NoneArg} \cup {[given |-> TRUE, list |-> l] : l \in FileLists}
          /\ x_manual \in {NoneArg} \cup {[given |-> TRUE, text |-> t] : t \in ManualTexts}
    /\ a_response = [status |-> 0]
    /\ x_i = 0
    /\ x_read = {}
    /\ extracted_sources = <<>>
    /\ x_ret = [kind |-> "pending"]
    /\ ScrapeIdle
    /\ KeysIdle
    /\ ChunkTextIdle
    /\ MultiIdle
    /\ FnIdle
    /\ SumIdle
    /\ PipeIdle

extract_frame == <<chunk_vars, multi_vars, fn_vars, sum_vars, pipe_vars,
                   scrape_vars, key_vars>>

\* app.py lines 60-68
AppRejectNoInput ==
    /\ a_pc = "request"
    /\ a_files = <<>> /\ ManualLen(ManualStrip(a_text)) = 0
    /\ a_response' = [status |-> 400, error |-> "No input provided"]
    /\ a_pc' = "responded"
    /\ UNCHANGED <<a_files, a_text, x_pc, x_files, x_manual, x_i, x_read,
                   extracted_sources, x_ret>>
    /\ UNCHANGED extract_frame

\* app.py lines 60-64 and 93-99, document_processor.py line 123
AppProcess ==
    /\ a_pc = "request"
    /\ ~(a_files = <<>> /\ ManualLen(ManualStrip(a_text)) = 0)
    /\ x_files' = IF a_files # <<>> THEN [given |-> TRUE, list |-> a_files]
                  ELSE NoneArg
    /\ x_manual' = IF ManualLen(ManualStrip(a_text)) > 0
                   THEN [given |-> TRUE, text |-> ManualStrip(a_text)]
                   ELSE NoneArg
    /\ x_pc' = "validate"
    /\ a_pc' = "processing"
    /\ UNCHANGED <<a_files, a_text, a_response, x_i, x_read,
                   extracted_sources, x_ret>>
    /\ UNCHANGED extract_frame

\* lines 51-53
XTooMany ==
    /\ x_pc = "validate"
    /\ total_docs(x_files, x_manual) > MAX_TOTAL_DOCUMENTS
    /\ x_ret' = [kind |-> "ValueError", error |-> "Maximum documents allowed"]
    /\ x_pc' = "raised"
    /\ UNCHANGED <<a_pc, a_files, a_text, a_response, x_files, x_manual, x_i,
                   x_read, extracted_sources>>
    /\ UNCHANGED extract_frame

\* lines 51-56
XNoDocs ==
    /\ x_pc = "validate"
    /\ ~(total_docs(x_files, x_manual) > MAX_TOTAL_DOCUMENTS)
    /\ total_docs(x_files, x_manual) = 0
    /\ x_ret' = [kind |-> "ValueError", error |-> "No input provided"]
    /\ x_pc' = "raised"
    /\ UNCHANGED <<a_pc, a_files, a_text, a_response, x_files, x_manual, x_i,
                   x_read, extracted_sources>>
    /\ UNCHANGED extract_frame

\* lines 51-59: the count is good
XValidated ==
    /\ x_pc = "validate"
    /\ ~(total_docs(x_files, x_manual) > MAX_TOTAL_DOCUMENTS)
    /\ total_docs(x_files, x_manual) # 0
    /\ x_i' = 1
    /\ x_pc' = "files"
    /\ UNCHANGED <<a_pc, a_files, a_text, a_response, x_files, x_manual,
                   x_read, extracted_sources, x_ret>>
    /\ UNCHANGED extract_frame

\* the for loop of line 60 has a file to visit
FileAt ==
    /\ x_pc = "files"
    /\ x_files.given
    /\ x_i <= Len(x_files.list)

\* lines 60-62: an entry without filename is passed over
XSkipFile ==
    /\ FileAt
    /\ x_files.list[x_i].filename = ""
    /\ x_i' = x_i + 1
    /\ UNCHANGED <<a_pc, a_files, a_text, a_response, x_pc, x_files, x_manual,
                   x_read, extracted_sources, x_ret>>
    /\ UNCHANGED extract_frame

\* lines 64-76: the file is read and its text extracted
XReadFile ==
    /\ FileAt
    /\ x_files.list[x_i].filename # ""
    /\ process_file_ok(x_files.list[x_i])
    /\ x_read' = x_read \cup {x_i}
    /\ extracted_sources' = Append(extracted_sources, process_file(x_files.list[x_i]))
    /\ x_i' = x_i + 1
    /\ UNCHANGED <<a_pc, a_files, a_text, a_response, x_pc, x_files, x_manual,
                   x_ret>>
    /\ UNCHANGED extract_frame

\* faulty variant of XFileFails: the file is passed over
XFileFails_passes_over ==
    /\ FileAt
    /\ x_files.list[x_i].filename # ""
    /\ ~process_file_ok(x_files.list[x_i])
    /\ x_read' = x_read \cup {x_i}
    /\ x_i' = x_i + 1
    /\ UNCHANGED <<a_pc, a_files, a_text, a_response, x_pc, x_files, x_manual,
                   extracted_sources, x_ret>>
    /\ UNCHANGED extract_frame

\* lines 64-79: reading or extracting fails, ValueError is raised
XFileFails ==
    /\ FileAt
    /\ x_files.list[x_i].filename # ""
    /\ ~process_file_ok(x_files.list[x_i])
    /\ x_read' = x_read \cup {x_i}
    /\ x_ret' = [kind |-> "ValueError", error |-> "Error processing"]
    /\ x_pc' = "raised"
    /\ UNCHANGED <<a_pc, a_files, a_text, a_response, x_files, x_manual, x_i,
                   extracted_sources>>
    /\ UNCHANGED extract_frame

\* the files are done (lines 59-60)
FilesDone ==
    /\ x_pc = "files"
    /\ IF x_files.given THEN x_i > Len(x_files.list) ELSE TRUE

\* line 82
manual_usable(manual) ==
    /\ manual.given
    /\ ManualLen(manual.text) > 0
    /\ ManualLen(ManualStrip(manual.text)) > 0

\* lines 82-84
XManualTooLong ==
    /\ FilesDone
    /\ manual_usable(x_manual)
    /\ ManualLen(x_manual.text) > MAX_MANUAL_CHARS
    /\ x_ret' = [kind |-> "ValueError", error |-> "Manual text exceeds limit"]
    /\ x_pc' = "raised"
    /\ UNCHANGED <<a_pc, a_files, a_text, a_response, x_files, x_manual, x_i,
                   x_read, extracted_sources>>
    /\ UNCHANGED extract_frame

\* lines 82-95: the manual text is added and the list returned
XManualAppend ==
    /\ FilesDone
    /\ manual_usable(x_manual)
    /\ ~(ManualLen(x_manual.text) > MAX_MANUAL_CHARS)
    /\ extracted_sources' =
          Append(extracted_sources,
                 [source |-> "manual_text", type |-> "text",
                  text |-> ManualStrip(x_manual.text).body,
                  pad |-> ManualStrip(x_manual.text).pad])
    /\ x_ret' = [kind |-> "list", value |-> extracted_sources']
    /\ x_pc' = "returned"
    /\ UNCHANGED <<a_pc, a_files, a_text, a_response, x_files, x_manual, x_i,
                   x_read>>
    /\ UNCHANGED extract_frame

\* lines 82 and 95: no manual text to add, the list is returned
XReturn ==
    /\ FilesDone
    /\ ~manual_usable(x_manual)
    /\ x_ret' = [kind |-> "list", value |-> extracted_sources]
    /\ x_pc' = "returned"
    /\ UNCHANGED <<a_pc, a_files, a_text, a_response, x_files, x_manual, x_i,
                   x_read, extracted_sources>>
    /\ UNCHANGED extract_frame

\* app.py lines 100-104
AppValueError ==
    /\ a_pc = "processing"
    /\ x_pc = "raised"
    /\ a_response' = [status |-> 400, error |-> x_ret.error]
    /\ a_pc' = "responded"
    /\ UNCHANGED <<a_files, a_text, x_pc, x_files, x_manual, x_i, x_read,
                   extracted_sources, x_ret>>
    /\ UNCHANGED extract_frame

\* document_processor.py lines 125-164 and app.py lines 106-127: the sources
\* are chunked and handed to the generation agent
AppGenerate ==
    /\ a_pc = "processing"
    /\ x_pc = "returned"
    /\ a_response' = [status |-> 200, total_sources |-> Len(x_ret.value)]
    /\ a_pc' = "generated"
    /\ UNCHANGED <<a_files, a_text, x_pc, x_files, x_manual, x_i, x_read,
                   extracted_sources, x_ret>>
    /\ UNCHANGED extract_frame

NextExtract ==
    \/ AppRejectNoInput
    \/ AppProcess
    \/ XTooMany
    \/ XNoDocs
    \/ XValidated
    \/ XSkipFile
    \/ XReadFile
    \/ XFileFails
    \/ XManualTooLong
    \/ XManualAppend
    \/ XReturn
    \/ AppValueError
    \/ AppGenerate

SpecExtract == InitExtract /\ [][NextExtract]_vars

-----------------------------------------------------------------------------
(* Concurrent requests of generate_study_pack, one thread each, and the
   environment variable GOOGLE_API_KEY of the process *)

Requests == 1..MaxRequests

ApiKeys == {"key-1", "key-2", "key-3"}

\* the requests carry api_key values that differ from one another
InitKeys ==
    /\ k_pc = [r \in Requests |-> "summarizer_set_env"]
    /\ k_env = "unset"
    /\ k_built \in {b \in [Requests -> [api_key : ApiKeys,
                                          summarizer : {"unbuilt"},
                                          agent : {"unbuilt"}]] :
                        \A q, r \in Requests : q # r => b[q].api_key # b[r].api_key}
    /\ ScrapeIdle
    /\ ExtractIdle
    /\ ChunkTextIdle
    /\ MultiIdle
    /\ FnIdle
    /\ SumIdle
    /\ PipeIdle

keys_frame == <<chunk_vars, multi_vars, fn_vars, sum_vars, pipe_vars,
                scrape_vars, extract_vars>>

\* app.py line 93, summarization_service.py line 24
SummarizerSetEnv(r) ==
    /\ k_pc[r] = "summarizer_set_env"
    /\ k_env' = k_built[r].api_key
    /\ k_pc' = [k_pc EXCEPT ![r] = "summarizer_build"]
    /\ UNCHANGED k_built
    /\ UNCHANGED keys_frame

\* summarization_service.py line 25: GoogleModel takes the key that the
\* environment holds when it is constructed
SummarizerBuild(r) ==
    /\ k_pc[r] = "summarizer_build"
    /\ k_built' = [k_built EXCEPT ![r].summarizer = k_env]
    /\ k_pc' = [k_pc EXCEPT ![r] = "process"]
    /\ UNCHANGED k_env
    /\ UNCHANGED keys_frame

\* app.py lines 94-99 and 106-115: the documents are processed
ProcessOk(r) ==
    /\ k_pc[r] = "process"
    /\ k_pc' = [k_pc EXCEPT ![r] = "agent_set_env"]
    /\ UNCHANGED <<k_env, k_built>>
    /\ UNCHANGED keys_frame

\* app.py lines 94-104: process_documents raises, the request is answered
ProcessRaises(r) ==
    /\ k_pc[r] = "process"
    /\ k_pc' = [k_pc EXCEPT ![r] = "responded"]
    /\ UNCHANGED <<k_env, k_built>>
    /\ UNCHANGED keys_frame

\* app.py line 118, syllabus_agent.py lines 14-17
AgentSetEnv(r) ==
    /\ k_pc[r] = "agent_set_env"
    /\ k_env' = k_built[r].api_key
    /\ k_pc' = [k_pc EXCEPT ![r] = "agent_build"]
    /\ UNCHANGED k_built
    /\ UNCHANGED keys_frame

\* syllabus_agent.py line 18
AgentBuild(r) ==
    /\ k_pc[r] = "agent_build"
    /\ k_built' = [k_built EXCEPT ![r].agent = k_env]
    /\ k_pc' = [k_pc EXCEPT ![r] = "generate"]
    /\ UNCHANGED k_env
    /\ UNCHANGED keys_frame

\* app.py lines 119-127
Respond(r) ==
    /\ k_pc[r] = "generate"
    /\ k_pc' = [k_pc EXCEPT ![r] = "responded"]
    /\ UNCHANGED <<k_env, k_built>>
    /\ UNCHANGED keys_frame

NextKeys ==
    \E r \in Requests :
        \/ SummarizerSetEnv(r)
        \/ SummarizerBuild(r)
        \/ ProcessOk(r)
        \/ ProcessRaises(r)
        \/ AgentSetEnv(r)
        \/ AgentBuild(r)
        \/ Respond(r)

SpecKeys == InitKeys /\ [][NextKeys]_vars

-----------------------------------------------------------------------------
(* Notions the properties below are stated with. *)

\* the chunk has been appended by this step
ChunkClosed == Len(chunks') = Len(chunks) + 1

\* the units of paragraphs ps: a paragraph that fits, or the sentences of one
\* that does not
RECURSIVE UnitsOf(_, _)
UnitsOf(ps, max) ==
    IF ps = <<>> THEN <<>>
    ELSE (IF estimate_tokens(Head(ps)) > max
          THEN split_by_sentences(Head(ps))
          ELSE <<Head(ps)>>) \o UnitsOf(Tail(ps), max)

Units == UnitsOf(split_paragraphs(text), max_tokens)

SomeParagraphOversized ==
    \E i \in 1..Len(split_paragraphs(text)) :
        estimate_tokens(split_paragraphs(text)[i]) > max_tokens

SomeParagraphFits ==
    \E i \in 1..Len(split_paragraphs(text)) :
        estimate_tokens(split_paragraphs(text)[i]) <= max_tokens

\* a unit whose own estimate exceeds max_tokens occurs in the chunk
HasOversizedUnit(c) ==
    \E i \in 1..Len(Units) :
        /\ estimate_tokens(Units[i]) > max_tokens
        /\ Contains(c.text, Units[i])

\* the paragraphs joined by a blank line
RECURSIVE JoinBlankLine(_)
JoinBlankLine(ps) ==
    IF ps = <<>> THEN <<>>
    ELSE IF Len(ps) = 1 THEN ps[1]
         ELSE ps[1] \o <<NL, NL>> \o JoinBlankLine(Tail(ps))

\* the overlap tail as section 4.3 step 5 words it: the trailing n characters
\* of t (all of t when shorter), cut after the first ". " when there is one
StatedOverlap(t, n) ==
    LET s == IF Len(t) <= n THEN t ELSE SubSeq(t, Len(t) - n + 1, Len(t))
        k == Find(s, <<".", " ">>)
    IN  IF k # -1 THEN SubSeq(s, k + 3, Len(s)) ELSE s

-----------------------------------------------------------------------------
(* C1..C10 *)

\* C1: the i-th chunk of the result carries chunk_index i (from 0), with no
\* gap and no repeat, whichever branch closed it.
C1_IndexContiguity ==
    \A i \in 1..Len(chunks) : chunks[i].chunk_index = i - 1

\* C1 happens: a finished call with three chunks, from a text that has both an
\* oversized paragraph and one that fits.
C1_Witness ==
    /\ pc = "done"
    /\ Len(chunks) >= 3
    /\ SomeParagraphOversized
    /\ SomeParagraphFits

\* C2: with 0 <= overlap_tokens < max_tokens and max_tokens > 0, a returned
\* chunk that holds no oversized unit has token_estimate <= max_tokens.
\* Stated for overlap_tokens > 0, the case where the tail is the one that
\* _get_overlap is documented to return.
C2_BudgetRespect ==
    (pc = "done" /\ max_tokens > 0 /\ 0 < overlap_tokens
                 /\ overlap_tokens < max_tokens)
    => \A i \in 1..Len(chunks) :
           \/ chunks[i].token_estimate <= max_tokens
           \/ HasOversizedUnit(chunks[i])

\* C3: token_estimate of every chunk is the estimate of the chunk's own
\* (trimmed) text field.
C3_EstimateOfOwnText ==
    \A i \in 1..Len(chunks) :
        chunks[i].token_estimate = estimate_tokens(chunks[i].text)

\* C4: whenever a chunk is closed, the new accumulator starts with the overlap
\* tail as stated: the trailing overlap_chars characters of the closed
\* accumulator, cut after the first ". ", never longer than overlap_chars.
C4_OverlapAsStated ==
    [][/\ (pc = "sent" /\ ChunkClosed)
            => current_chunk' = StatedOverlap(current_chunk, overlap_chars)
                                   \o <<" ">> \o Head(sentences)
       /\ (pc = "para" /\ pc' = "para" /\ ChunkClosed)
            => current_chunk' = StatedOverlap(current_chunk, overlap_chars)
                                   \o <<NL, NL>> \o Head(paragraphs)]_vars

\* C5: with overlap_tokens > 0, the text of every chunk after the first begins
\* with a non-empty string that is a suffix of the text of the chunk before.
C5_OverlapPresence ==
    overlap_tokens > 0
    => \A k \in 1..(Len(chunks) - 1) :
           \E n \in 1..Len(chunks[k + 1].text) :
               IsSuffix(SubSeq(chunks[k + 1].text, 1, n), chunks[k].text)

\* C5 happens: a finished call with overlap and three chunks.
C5_Witness ==
    /\ pc = "done"
    /\ overlap_tokens > 0
    /\ Len(chunks) >= 3

\* C6: no chunk has an empty text, and no text starts or ends with whitespace.
C6_NonEmptyTrimmed ==
    \A i \in 1..Len(chunks) :
        /\ chunks[i].text # <<>>
        /\ chunks[i].text[1] \notin Whitespace
        /\ chunks[i].text[Len(chunks[i].text)] \notin Whitespace

\* C6 happens: chunks closed from an accumulator that does start with
\* whitespace (one started by the sentence branch).
C6_Witness ==
    /\ pc = "done"
    /\ Len(chunks) >= 2
    /\ current_chunk # Strip(current_chunk)

\* C7: a chunk is closed either by the step that ends the call, or when the
\* accumulator is non-empty and accumulator + separator + next unit estimates
\* above max_tokens; the call of a non-blank text ends by closing a chunk; and
\* closed chunks stay as they are.
C7_ClosedOnlyWhenForced ==
    [][/\ Len(chunks') >= Len(chunks)
       /\ SubSeq(chunks', 1, Len(chunks)) = chunks
       /\ (Len(chunks') # Len(chunks)) =>
            /\ ChunkClosed
            /\ \/ pc = "para" /\ paragraphs = <<>> /\ pc' = "done"
               \/ /\ pc = "sent" /\ sentences # <<>> /\ pc' # "done"
                  /\ current_chunk # <<>>
                  /\ Len(current_chunk \o <<" ">> \o Head(sentences))
                        \div CHARS_PER_TOKEN > max_tokens
               \/ /\ pc = "para" /\ paragraphs # <<>> /\ pc' # "done"
                  /\ current_chunk # <<>>
                  /\ Len(current_chunk \o <<NL, NL>> \o Head(paragraphs))
                        \div CHARS_PER_TOKEN > max_tokens
       /\ (pc = "para" /\ pc' = "done") => ChunkClosed]_vars

\* C7 happens: a finished call that closed chunks in the sentence loop, from an
\* oversized paragraph, and one at the end.
C7_Witness ==
    /\ pc = "done"
    /\ Len(chunks) >= 3
    /\ SomeParagraphOversized

\* C8: when the call is over every unit (a paragraph that fits, a sentence of
\* a paragraph that does not) occurs whole in the text of some chunk.
C8_UnitsWhole ==
    pc = "done"
    => \A i \in 1..Len(Units) :
           \E k \in 1..Len(chunks) : Contains(chunks[k].text, Units[i])

\* C8 happens: a finished call with several units, one of them oversized and
\* kept whole in a chunk above the budget.
C8_Witness ==
    /\ pc = "done"
    /\ Len(Units) >= 2
    /\ \E i \in 1..Len(Units) : estimate_tokens(Units[i]) > max_tokens
    /\ \E k \in 1..Len(chunks) : chunks[k].token_estimate > max_tokens

\* C9: a paragraph p that fits alone, arriving at a non-empty accumulator A
\* with estimate(A + blank line + p) > max_tokens, closes exactly one chunk,
\* whose text is the trimmed A, and the next accumulator is the overlap tail
\* of A (a suffix of A), a blank line and p.
C9_ForcedSplit ==
    [][(/\ pc = "para" /\ paragraphs # <<>> /\ current_chunk # <<>>
        /\ estimate_tokens(Head(paragraphs)) <= max_tokens
        /\ estimate_tokens(current_chunk \o <<NL, NL>> \o Head(paragraphs))
              > max_tokens)
       => LET tail == get_overlap(current_chunk, overlap_chars)
          IN  /\ ChunkClosed
              /\ SubSeq(chunks', 1, Len(chunks)) = chunks
              /\ chunks'[Len(chunks')].text = Strip(current_chunk)
              /\ IsSuffix(tail, current_chunk)
              /\ current_chunk' = tail \o <<NL, NL>> \o Head(paragraphs)]_vars

\* C9 happens: two paragraphs that each fit a positive budget and do not fit
\* together; chunk 0 is the first one only, chunk 1 ends with the second.
C9_Witness ==
    LET ps == split_paragraphs(text)
    IN  /\ pc = "done"
        /\ max_tokens > 0
        /\ overlap_tokens > 0
        /\ Len(ps) = 2
        /\ ~SomeParagraphOversized
        /\ Len(chunks) = 2
        /\ chunks[1].text = ps[1]
        /\ IsSuffix(<<NL, NL>> \o ps[2], chunks[2].text)

\* C10: when the paragraphs of a non-blank text all fit and, joined by blank
\* lines, estimate to at most max_tokens, the result is one chunk, of index 0,
\* whose text is that join; without a blank-line break it is the trimmed text.
C10_SingleChunk ==
    LET ps == split_paragraphs(text)
    IN  (/\ pc = "done"
         /\ ps # <<>>
         /\ ~SomeParagraphOversized
         /\ estimate_tokens(JoinBlankLine(ps)) <= max_tokens)
        => /\ Len(chunks) = 1
           /\ chunks[1].chunk_index = 0
           /\ chunks[1].text = JoinBlankLine(ps)
           /\ (~Contains(text, <<NL, NL>>) => chunks[1].text = Strip(text))

\* C10 happens: two paragraphs under a positive budget, returned as one chunk.
C10_Witness ==
    LET ps == split_paragraphs(text)
    IN  /\ pc = "done"
        /\ max_tokens > 0
        /\ Len(ps) >= 2
        /\ estimate_tokens(JoinBlankLine(ps)) <= max_tokens
        /\ Len(chunks) = 1

-----------------------------------------------------------------------------
(* C11..C20 *)

\* C11: a call on an empty or whitespace-only text returns no chunk, and a
\* call on a text with a non-whitespace character returns at least one.
C11_BlankGivesNoChunks ==
    pc = "done" => (Strip(text) = <<>> <=> chunks = <<>>)

\* C11 happens: a finished call on a text of whitespace only.
C11_Witness ==
    /\ pc = "done"
    /\ text # <<>>
    /\ Strip(text) = <<>>
    /\ chunks = <<>>

\* C15: every iteration of the paragraph loop takes exactly the first
\* paragraph off the queue, every iteration of the sentence loop exactly the
\* first sentence, nothing is put back, and the call ends.
C15_Terminates ==
    /\ [][/\ (pc = "para" /\ paragraphs # <<>>)
               => paragraphs' = Tail(paragraphs)
          /\ (pc = "sent" /\ sentences # <<>>)
               => (sentences' = Tail(sentences) /\ paragraphs' = paragraphs)
          /\ (pc = "para" /\ paragraphs = <<>>) => pc' = "done"
          /\ (pc # "start") => Len(paragraphs') <= Len(paragraphs)
          /\ (pc \notin {"para", "sent"}) => sentences' = sentences]_vars
    /\ <>(pc = "done")

\* C15 happens: a finished call with overlap_tokens >= max_tokens > 0 that
\* went through the sentence loop and closed a chunk there.
C15_Witness ==
    /\ pc = "done"
    /\ max_tokens > 0
    /\ overlap_tokens >= max_tokens
    /\ Len(chunks) >= 2
    /\ SomeParagraphOversized

\* C17: a call with a negative max_tokens or overlap_tokens is rejected, so
\* it produces no chunk.
C17_BadArgsRejected ==
    (max_tokens < 0 \/ overlap_tokens < 0) => chunks = <<>>

\* position i of t holds a sentence-ending mark followed by whitespace
IsDelimiter(t, i) ==
    /\ i < Len(t)
    /\ t[i] \in {".", "!", "?"}
    /\ t[i + 1] \in {" ", NL, "\t", "\r"}

\* some character of t is neither whitespace nor such a mark
HasSentenceContent(t) ==
    \E i \in 1..Len(t) :
        t[i] \notin {" ", NL, "\t", "\r"} /\ ~IsDelimiter(t, i)

\* the fragments of t between the marks that are followed by whitespace,
\* trimmed, without the empty ones, in the order of t
StatedSentences(t) ==
    LET D == {i \in 1..Len(t) : IsDelimiter(t, i)}
        starts == {1} \cup {d + 1 : d \in D}
        last(b) == IF \E d \in D : d >= b
                   THEN (CHOOSE d \in D : d >= b /\ \A x \in D : x >= b => d <= x) - 1
                   ELSE Len(t)
        fragment(b) == Strip(SubSeq(t, b, last(b)))
        kept == {b \in starts : fragment(b) # <<>>}
    IN  [k \in 1..Cardinality(kept) |->
            fragment(CHOOSE b \in kept :
                        Cardinality({x \in kept : x < b}) = k - 1)]

\* C18 as claimed: split_by_sentences returns the stated fragments, and a
\* non-blank text yields at least one sentence.
C18_SplitAsClaimed ==
    fn_pc = "split_by_sentences_returned"
    => /\ fn_ret = StatedSentences(fn_arg)
       /\ Strip(fn_arg) # <<>> => fn_ret # <<>>

\* C18 as amended: split_by_sentences returns the stated fragments, and
\* yields at least one sentence exactly when the text has a non-whitespace
\* character other than a mark followed by whitespace.
C18_SplitAmended ==
    fn_pc = "split_by_sentences_returned"
    => /\ fn_ret = StatedSentences(fn_arg)
       /\ HasSentenceContent(fn_arg) <=> fn_ret # <<>>

\* C18 happens: a text broken in two sentences at a "?" followed by
\* whitespace, whose last sentence keeps a mark that nothing follows.
C18_Witness ==
    /\ fn_pc = "split_by_sentences_returned"
    /\ \E i \in 1..Len(fn_arg) : IsDelimiter(fn_arg, i) /\ fn_arg[i] = "?"
    /\ Len(fn_ret) = 2
    /\ fn_ret[2][Len(fn_ret[2])] = "."

\* C19: estimate_tokens(t) is floor(len(t) / 4): a natural number e with
\* 4e <= len(t) < 4e + 4, 0 for fewer than 4 characters, and not smaller
\* for t with characters appended.
C19_EstimateIsFloor ==
    fn_pc = "estimate_tokens_returned"
    => /\ fn_ret \in Nat
       /\ 4 * fn_ret <= Len(fn_arg)
       /\ Len(fn_arg) < 4 * fn_ret + 4
       /\ Len(fn_arg) < 4 => fn_ret = 0
       /\ \A p \in Pieces : estimate_tokens(fn_arg \o p) >= fn_ret

\* C19 happens: a text of two tokens and a remainder.
C19_Witness ==
    /\ fn_pc = "estimate_tokens_returned"
    /\ Len(fn_arg) = 11
    /\ fn_ret = 2

\* The chunks of one call of chunk_text as a function of its arguments
\* alone: the sentences of an oversized paragraph, then the paragraphs, are
\* folded into (accumulator, chunks so far, next index).
RECURSIVE FoldSentences(_, _, _, _, _)
FoldSentences(st, ss, src, max, ov) ==
    IF ss = <<>> THEN st
    ELSE LET joined == st.cur \o <<" ">> \o Head(ss)
         IN  IF Len(joined) \div 4 > max /\ st.cur # <<>>
             THEN FoldSentences(
                      [cur |-> get_overlap(st.cur, ov * 4) \o <<" ">> \o Head(ss),
                       out |-> Append(st.out, make_chunk(src, st.idx, st.cur)),
                       idx |-> st.idx + 1],
                      Tail(ss), src, max, ov)
             ELSE FoldSentences([st EXCEPT !.cur = joined], Tail(ss), src, max, ov)

RECURSIVE FoldParagraphs(_, _, _, _, _)
FoldParagraphs(st, ps, src, max, ov) ==
    IF ps = <<>> THEN st
    ELSE LET para == Head(ps)
             joined == st.cur \o <<NL, NL>> \o para
         IN  IF Len(para) \div 4 > max
             THEN FoldParagraphs(
                      FoldSentences(st, split_by_sentences(para), src, max, ov),
                      Tail(ps), src, max, ov)
             ELSE IF Len(joined) \div 4 > max /\ st.cur # <<>>
             THEN FoldParagraphs(
                      [cur |-> get_overlap(st.cur, ov * 4) \o <<NL, NL>> \o para,
                       out |-> Append(st.out, make_chunk(src, st.idx, st.cur)),
                       idx |-> st.idx + 1],
                      Tail(ps), src, max, ov)
             ELSE FoldParagraphs(
                      [st EXCEPT !.cur = IF st.cur # <<>> THEN joined ELSE para],
                      Tail(ps), src, max, ov)

ChunkTextAlone(t, src, max, ov) ==
    IF Strip(t) = <<>> THEN <<>>
    ELSE LET st == FoldParagraphs([cur |-> <<>>, out |-> <<>>, idx |-> 0],
                                  split_paragraphs(t), src, max, ov)
         IN  IF Strip(st.cur) # <<>>
             THEN Append(st.out, make_chunk(src, st.idx, st.cur))
             ELSE st.out

\* the source identifier and the text a source dict stands for
NameOf(d) == IF "source" \in DOMAIN d THEN d.source ELSE "unknown"
TextOf(d) == IF "text" \in DOMAIN d THEN d.text ELSE <<>>

\* the outputs of chunk_text for each source of l taken alone, with the
\* default overlap of 100 tokens, one after the other in the order of l
RECURSIVE ConcatAlone(_, _)
ConcatAlone(l, max) ==
    IF l = <<>> THEN <<>>
    ELSE ConcatAlone(SubSeq(l, 1, Len(l) - 1), max)
            \o ChunkTextAlone(TextOf(l[Len(l)]), NameOf(l[Len(l)]), max, 100)

IsBlankSource(d) == \A i \in 1..Len(TextOf(d)) : TextOf(d)[i] \in Whitespace
HasText(d) == ~IsBlankSource(d)

\* C12: chunk_multiple_sources returns the concatenation, in source order,
\* of what chunk_text returns for each source alone; every chunk either
\* starts a source at chunk_index 0 or continues the source of the chunk
\* before it with the next index.
C12_ConcatenationInOrder ==
    m_pc = "done"
    => /\ all_chunks = ConcatAlone(m_sources, m_max_tokens)
       /\ \A k \in 1..Len(all_chunks) :
             \/ all_chunks[k].chunk_index = 0
             \/ /\ k > 1
                /\ all_chunks[k].chunk_index = all_chunks[k - 1].chunk_index + 1
                /\ all_chunks[k].source = all_chunks[k - 1].source

\* C12 happens: two sources of different names, two chunks each.
C12_Witness ==
    /\ m_pc = "done"
    /\ Len(m_sources) = 2
    /\ Len(all_chunks) = 4
    /\ all_chunks[2].source = "b.txt"
    /\ all_chunks[3].source = "a.txt"
    /\ all_chunks[3].chunk_index = 0
    /\ all_chunks[3].text # all_chunks[1].text

\* C13: the sources with blank text contribute nothing: at every turn of
\* the loop and at the return, all_chunks is what the sources with text
\* among those visited give, as if the blank ones were not in the list.
C13_BlankSourcesSkipped ==
    m_pc \in {"loop", "done"}
    => all_chunks = ConcatAlone(SelectSeq(SubSeq(m_sources, 1, m_i - 1), HasText),
                                m_max_tokens)

\* C13 happens: a whitespace-only source first, then a source with text.
C13_Witness ==
    /\ m_pc = "done"
    /\ Len(m_sources) = 2
    /\ TextOf(m_sources[1]) # <<>>
    /\ IsBlankSource(m_sources[1])
    /\ HasText(m_sources[2])
    /\ Len(all_chunks) = 2
    /\ all_chunks[1].chunk_index = 0
    /\ all_chunks[1].source = NameOf(m_sources[2])

\* C14: what a call of chunk_text returns is a function of its arguments
\* alone, whatever calls ran before it; a call with the arguments of the
\* call before it returns the same chunks again.
C14_Stateless ==
    (m_pc = "call" /\ pc = "done")
    => /\ chunks = ChunkTextAlone(text, source, max_tokens, overlap_tokens)
       /\ (m_i > 1 /\ NameOf(m_sources[m_i - 1]) = source
                   /\ TextOf(m_sources[m_i - 1]) = text)
          => IsSuffix(chunks, all_chunks)

\* C14 happens: the second of two calls with equal arguments has returned
\* two chunks.
C14_Witness ==
    /\ m_pc = "call"
    /\ pc = "done"
    /\ m_i = 2
    /\ m_sources[1] = m_sources[2]
    /\ Len(chunks) = 2
    /\ all_chunks = chunks

\* the list l keeps every record it holds, unchanged, over the step to l2
KeptAsIs(l, l2) ==
    /\ Len(l2) >= Len(l)
    /\ \A i \in 1..Len(l) : l2[i] = l[i]

ChunkFields == {"source", "chunk_index", "text", "token_estimate"}

\* the list l keeps every record and its four fields over the step to l2,
\* with no other field added than those of extra
KeptUpTo(l, l2, extra) ==
    /\ Len(l2) >= Len(l)
    /\ \A i \in 1..Len(l) :
          /\ \A f \in ChunkFields : l2[i][f] = l[i][f]
          /\ DOMAIN l2[i] \subseteq DOMAIN l[i] \cup extra

\* C16 as claimed: no step of chunk_text, of chunk_multiple_sources, of
\* process_documents or of the summarization changes, extends or removes a
\* chunk that is in a result list.
C16_ImmutableAsClaimed ==
    [][/\ pc' = "start" \/ KeptAsIs(chunks, chunks')
       /\ KeptAsIs(all_chunks, all_chunks')
       /\ KeptAsIs(s_chunks, s_chunks')]_vars

\* C16 as amended: no step changes one of the four fields of a chunk that is
\* in a result list or removes the chunk; no step of chunk_text or of
\* chunk_multiple_sources adds a field; the one change made to such a chunk
\* is the field 'summary' that summarize_chunks adds to it after gather.
C16_ImmutableAmended ==
    [][/\ pc' = "start" \/ KeptAsIs(chunks, chunks')
       /\ KeptAsIs(all_chunks, all_chunks')
       /\ KeptUpTo(s_chunks, s_chunks',
                   IF s_pc = "add_summaries" THEN {"summary"} ELSE {})
       /\ p_pc' = "done" => KeptUpTo(all_chunks, p_result'.chunks, {"summary"})]_vars

\* C16 happens: process_documents has returned three chunks that
\* summarize_chunks extended.
C16_Witness ==
    /\ p_pc = "done"
    /\ Len(p_result.chunks) >= 3
    /\ \A i \in 1..Len(p_result.chunks) :
          /\ "summary" \in DOMAIN p_result.chunks[i]
          /\ p_result.chunks[i].text = all_chunks[i].text

\* C20: once summarize_chunks has added the summaries, chunk i carries the
\* answer to the request made for chunk i's own text, whatever the order in
\* which the tasks completed; and what process_all returns as
\* chunk_summaries[i] is that summary.
C20_PairedByPosition ==
    /\ s_pc \in {"extract", "await_final", "returned"}
       => \A i \in 1..Len(s_chunks) :
             s_chunks[i].summary = <<"summary", i, s_chunks[i].text>>
    /\ s_pc = "returned"
       => /\ Len(s_result.chunk_summaries) = Len(s_chunks)
          /\ \A i \in 1..Len(s_chunks) :
                s_result.chunk_summaries[i] = <<"summary", i, s_chunks[i].text>>

\* C20 happens: three chunks whose tasks completed last to first.
C20_Witness ==
    /\ s_pc = "returned"
    /\ Len(s_chunks) = 3
    /\ s_completed = <<3, 2, 1>>
    /\ s_chunks[1].text # s_chunks[3].text

-----------------------------------------------------------------------------
(* C21..C26 *)

\* the characters of t that are not whitespace, in order
NonWhitespace(t) == SelectSeq(t, LAMBDA c : c \notin {" ", NL, "\t", "\r"})

\* the strings of the list l one after the other
RECURSIVE Flatten(_)
Flatten(l) == IF l = <<>> THEN <<>> ELSE Head(l) \o Flatten(Tail(l))

\* a can be had from b by leaving characters out
RECURSIVE IsSubsequence(_, _)
IsSubsequence(a, b) ==
    IF a = <<>> THEN TRUE
    ELSE IF b = <<>> THEN FALSE
    ELSE IF Head(a) = Head(b) THEN IsSubsequence(Tail(a), Tail(b))
    ELSE IsSubsequence(a, Tail(b))

\* C24: no content is lost: the units of the text hold every non-whitespace
\* character of the text in order, sentence-ending marks included, and so the
\* texts of the returned chunks, which carry the units and overlaps, hold
\* these characters in order.
C24_NoContentLost ==
    pc = "done"
    => /\ NonWhitespace(Flatten(Units)) = NonWhitespace(text)
       /\ IsSubsequence(NonWhitespace(text),
                        NonWhitespace(Flatten([i \in 1..Len(chunks) |-> chunks[i].text])))

\* units visited so far by the loops of chunk_text
UnitsProcessed ==
    Len(Units) - Len(sentences) - Len(UnitsOf(paragraphs, max_tokens))

\* C26: chunk_text returns at most as many chunks as it processed units:
\* inside the loops the chunks closed are fewer than the units visited (the
\* first unit closes none, every other at most one), and the end of input
\* adds at most one.
C26_ChunksBoundedByUnits ==
    /\ pc \in {"para", "sent"}
       => Len(chunks) <= (IF UnitsProcessed > 0 THEN UnitsProcessed - 1 ELSE 0)
    /\ pc = "done" => Len(chunks) <= Len(Units)

\* C26 happens: overlap_tokens >= max_tokens and every unit after the first
\* closed a chunk.
C26_Witness ==
    /\ pc = "done"
    /\ max_tokens > 0
    /\ overlap_tokens >= max_tokens
    /\ Len(chunks) = 3
    /\ Len(Units) = 3
    /\ SomeParagraphOversized

\* every GET logged so far ended in a request error
AllRequestErrors(log) ==
    \A i \in 1..Len(log) : log[i] \in {"ConnectionError", "Timeout", "HTTPError"}

\* C21: a GET is issued only while fewer than max_retries were issued and
\* all of them ended in a request error, never after the return; the call
\* returns None exactly when max_retries (0 when negative) attempts were made
\* and all ended in a request error, and otherwise the record of the attempt
\* that succeeded, which is the last one.
C21_RetryDiscipline ==
    [][/\ (sc_pc' = "get" /\ sc_pc # "get")
          => /\ sc_pc = "loop"
             /\ Len(sc_log) < sc_max_retries
             /\ AllRequestErrors(sc_log)
       /\ sc_log' # sc_log => (sc_pc = "get" /\ Len(sc_log') = Len(sc_log) + 1)
       /\ (sc_pc' = "returned" /\ sc_pc # "returned")
          => /\ sc_ret'.kind = "None"
                <=> /\ AllRequestErrors(sc_log')
                    /\ Len(sc_log') = (IF sc_max_retries > 0 THEN sc_max_retries ELSE 0)
             /\ sc_ret'.kind # "None"
                => /\ sc_ret'.kind = "page"
                   /\ sc_ret'.url = sc_url
                   /\ sc_log'[Len(sc_log')] = "ok"
                   /\ AllRequestErrors(SubSeq(sc_log', 1, Len(sc_log') - 1))
       /\ sc_pc = "returned" => UNCHANGED scrape_vars]_vars

\* C21 happens: the third of three attempts succeeded after two request errors.
C21_Witness ==
    /\ sc_pc = "returned"
    /\ sc_max_retries = 3
    /\ sc_log = <<"Timeout", "HTTPError", "ok">>
    /\ sc_ret.kind = "page"

\* the files and the manual text extract_all_text was called with
GivenFiles == IF x_files.given THEN x_files.list ELSE <<>>
GivenManualLen ==
    IF x_manual.given THEN Len(x_manual.text.body) + x_manual.text.pad ELSE 0

\* the number of files plus one for a supplied manual text
DocumentCount == Len(GivenFiles) + (IF GivenManualLen > 0 THEN 1 ELSE 0)

\* the filenames of the entries that have one, in order
NamedFiles ==
    LET named == SelectSeq(GivenFiles, LAMBDA f : f.filename # "")
    IN  [i \in 1..Len(named) |-> named[i].filename]

\* the identifiers of the sources of l that come from files, in order
FileSourcesOf(l) ==
    LET from_files == SelectSeq(l, LAMBDA src : src.type # "text")
    IN  [i \in 1..Len(from_files) |-> from_files[i].source]

\* C22: with more than 5 documents, or none, extract_all_text reads no file,
\* extracts nothing and raises ValueError; whatever it raises is a ValueError;
\* a file that could not be processed ends the call; and a list is returned
\* only with one source for every file that has a filename, all of them read.
C22_ValidatedFirst ==
    x_pc # "idle"
    => /\ (DocumentCount > 5 \/ DocumentCount = 0)
          => /\ x_read = {}
             /\ extracted_sources = <<>>
             /\ x_pc \in {"validate", "raised"}
       /\ x_pc = "raised" => x_ret.kind = "ValueError"
       /\ (\E i \in x_read : ~GivenFiles[i].ok \/ Len(FileSourcesOf(extracted_sources)) < Cardinality(x_read))
          => x_pc = "raised"
       /\ x_pc = "returned"
          => /\ x_ret.kind = "list"
             /\ FileSourcesOf(x_ret.value) = NamedFiles
             /\ Cardinality(x_read) = Len(NamedFiles)

\* C22 happens: the third file fails after two were extracted.
C22_Witness ==
    /\ x_pc = "raised"
    /\ x_read = {1, 2, 3}
    /\ Len(extracted_sources) = 2
    /\ x_ret.kind = "ValueError"
    /\ DocumentCount <= 5

\* text of a source: blank or not
SourceIsBlank(src) == src.pad = 0 /\ \A i \in 1..Len(src.text) : src.text[i] \in Whitespace

\* C23: a list that extract_all_text returns has at least one source and
\* only sources with non-blank text; no request reaches chunking and the
\* generation agent with an empty list of sources.
C23_ReturnsUsableSources ==
    /\ x_pc = "returned"
       => /\ x_ret.value # <<>>
          /\ \A i \in 1..Len(x_ret.value) : ~SourceIsBlank(x_ret.value[i])
    /\ a_pc = "generated" => x_ret.value # <<>>

\* C25: every model client of a request is built under the request's own
\* api_key.
C25_BuiltUnderOwnKey ==
    \A r \in DOMAIN k_built :
        /\ k_built[r].summarizer \in {"unbuilt", k_built[r].api_key}
        /\ k_built[r].agent \in {"unbuilt", k_built[r].api_key}

=============================================================================
